---- MODULE Spec2Model ----
(***************************************************************************)
(* Model of the golfbot64 score workflow (src/bot_commands.py over the     *)
(* store helpers of src/db_helper.py): the pending queue, the verified     *)
(* score ledger, the players table, the course difficulty indices, and the *)
(* handlers that move a submission through them.  Every db_helper call     *)
(* commits on its own, so every store statement of a handler is one step.  *)
(*                                                                         *)
(* Floating point values (difficulty indices, adjusted scores, ratings)    *)
(* are modelled as exact reduced fractions <<n, d>> with d > 0.            *)
(***************************************************************************)
EXTENDS Integers, Sequences, FiniteSets, TLC

\* ------------------------------------------------------------------ bounds
MaxSubmits == 2      \* submissions made in one behaviour
MaxFails == 1        \* store statements that raise in one behaviour
MaxCalls == 2        \* commands issued by concurrent callers in one behaviour
SeedLen == 5         \* verified rounds of player 1 already in the ledger
MaxRatingLen == 7    \* longest score list given to calculate_player_rating
MaxOld == 2          \* scores older than the rolling window in a long score list
MaxRanked == 3       \* rows of the players table given to the ranking
MaxIndexRows == 16   \* verified rounds of player 1 in the ledger of the index check
MaxExtra == 1        \* rounds of a player on a course beyond the 8 most recent

\* ------------------------------------------------------- program constants
MIN_REQUIRED_SCORES == 6
ROLLING_AVERAGE_WINDOW == 40
NUM_REQUIRED_SCORES == 8

\* ------------------------------------------------------------ input domains
Procs == {1, 2}                    \* concurrent command invocations
Players == {1, 2}                  \* ctx.author.id
Courses == {1, 2}                  \* course_id of the courses table
Characters == {"Mario"}
ScoreValues == {3}                 \* strokes relative to par
Hashes == {"h1", "h2"}             \* outcomes of get_hash in the model

NameOf(p) == <<"name", p>>         \* ctx.author.name of player p

\* --------------------------------------------------------------- fractions
Abs(x) == IF x < 0 THEN -x ELSE x

RECURSIVE GCD(_, _)
GCD(a, b) == IF b = 0 THEN a ELSE GCD(b, a % b)

Norm(n, d) == LET g == GCD(Abs(n), d) IN <<n \div g, d \div g>>

RatOfInt(i) == <<i, 1>>
RatAdd(a, b) == Norm(a[1] * b[2] + b[1] * a[2], a[2] * b[2])
RatSub(a, b) == Norm(a[1] * b[2] - b[1] * a[2], a[2] * b[2])
RatDivInt(a, k) == Norm(a[1], a[2] * k)

\* sum(scores); the terms are added by halves, which for exact fractions is
\* the left-to-right sum
RECURSIVE RatSum(_)
RatSum(s) ==
    IF Len(s) = 0 THEN RatOfInt(0)
    ELSE IF Len(s) = 1 THEN s[1]
    ELSE LET h == Len(s) \div 2
         IN RatAdd(RatSum(SubSeq(s, 1, h)), RatSum(SubSeq(s, h + 1, Len(s))))

\* ------------------------------------------------------------ rating values
Zero == RatOfInt(0)
INVALID_RATING == [kind |-> "unrated", v |-> Zero]   \* globals.INVALID_RATING
NullRating == [kind |-> "null", v |-> Zero]          \* rating column not yet written
RatingOf(r) == [kind |-> "val", v |-> r]

\* the last n elements of s: s[-n:]
LastN(s, n) == IF Len(s) <= n THEN s ELSE SubSeq(s, Len(s) - n + 1, Len(s))

calculate_player_rating_no_minimum(scores) ==
    IF Len(scores) = 0 THEN INVALID_RATING
    ELSE IF Len(scores) < ROLLING_AVERAGE_WINDOW
    THEN RatingOf(RatDivInt(RatSum(scores), Len(scores)))
    ELSE RatingOf(RatDivInt(RatSum(LastN(scores, ROLLING_AVERAGE_WINDOW)),
                            ROLLING_AVERAGE_WINDOW))

calculate_player_rating_window_divisor(scores) ==
    IF Len(scores) < MIN_REQUIRED_SCORES THEN INVALID_RATING
    ELSE RatingOf(RatDivInt(RatSum(LastN(scores, ROLLING_AVERAGE_WINDOW)),
                            ROLLING_AVERAGE_WINDOW))

calculate_player_rating_whole_mean(scores) ==
    IF Len(scores) < MIN_REQUIRED_SCORES THEN INVALID_RATING
    ELSE RatingOf(RatDivInt(RatSum(scores), Len(scores)))

calculate_player_rating(scores) ==
    IF Len(scores) < MIN_REQUIRED_SCORES THEN INVALID_RATING
    ELSE IF Len(scores) < ROLLING_AVERAGE_WINDOW
    THEN RatingOf(RatDivInt(RatSum(scores), Len(scores)))
    ELSE RatingOf(RatDivInt(RatSum(LastN(scores, ROLLING_AVERAGE_WINDOW)),
                            ROLLING_AVERAGE_WINDOW))

\* ------------------------------------------------------------------- state
VARIABLES
    pending,    \* PENDING_SCORES_TABLE: sequence of rows, in insertion order
    scores,     \* SCORES_TABLE: sequence of rows; round_id is the serial
    players,    \* PLAYERS_TABLE: discord_id -> row, or NoPlayer
    indices,    \* COURSES_TABLE.difficulty_index, by course_id
    clock,      \* datetime.utcnow() in whole seconds
    pc,         \* position of each command invocation
    loc,        \* local variables of each command invocation
    nsub,       \* number of submissions made (bookkeeping: names a submission)
    fails,      \* number of store statements that raised
    ncalls,     \* number of commands issued by concurrent callers
    gone,       \* bookkeeping: submissions promoted or discarded so far
    calc,       \* an application of calculate_player_rating: input and result
    rank,       \* an application of the ranking: players rows in and ranking out
    submitted,  \* the latest add_score_to_queue call: its course and its answer;
                \* bookkeeping: the submissions queued so far, and whether one was
                \* queued under an id that was in the queue at the time, and
                \* the time of each call
    lastrun,    \* bookkeeping: the tables and the sheet as the latest completed
                \* ranking run left them, while no other command has been given
    diff,       \* bookkeeping of update_difficulty_indices: the indices of the
                \* earlier application and how the ledger was changed since
    sheet       \* rows of the published "Rankings" sheet, from cell A4 down

vars == <<pending, scores, players, indices, clock, pc, loc, nsub, fails, ncalls, gone, calc,
          rank, submitted, lastrun, diff, sheet>>

store == <<pending, scores, players, indices>>

workflow == <<pending, scores, players, indices, clock, pc, loc, nsub, fails, ncalls, gone,
              submitted, lastrun, diff, sheet>>

NoPlayer == [present |-> FALSE, name |-> <<"name", 0>>, rating |-> NullRating]
NoEntry == [ts |-> 0, hash |-> "none", course |-> 0, player |-> 0,
            name |-> <<"name", 0>>, character |-> "none", score |-> 0, sub |-> 0]

IdleLoc == [kind |-> "none", hash |-> "none", entry |-> NoEntry, adj |-> Zero,
            rating |-> NullRating, resp |-> "none", removed |-> 0,
            pre |-> <<>>, round |-> 0, rows |-> <<>>, cur |-> <<>>,
            data |-> <<>>, names |-> <<>>, k |-> 0]

CalcIdle == [scores |-> <<>>, result |-> NullRating, done |-> FALSE,
             prev |-> NullRating, changed |-> FALSE]
RankIdle == [tbl |-> <<>>, result |-> <<>>, done |-> FALSE]
NoSubmit == [course |-> 0, resp |-> "none", queued |-> {}, dup |-> FALSE, at |-> <<>>]
NoRun == [valid |-> FALSE, scores |-> <<>>, players |-> <<>>, sheet |-> <<>>]
NoDiff == [tbl |-> <<>>, ptbl |-> <<>>, old |-> <<>>, result |-> <<>>, wrote |-> FALSE,
           resp |-> "none", done |-> FALSE, prev |-> <<>>, changed |-> "none"]

Batch == 0                         \* the ranking run (generate_rankings_table)
AllProcs == Procs \cup {Batch}

\* ------------------------------------------------------------ table helpers
SeqFilter(s, Test(_)) ==
    LET F[i \in 0..Len(s)] ==
            IF i = 0 THEN <<>>
            ELSE IF Test(s[i]) THEN Append(F[i - 1], s[i]) ELSE F[i - 1]
    IN F[Len(s)]

SeqMap(s, Op(_)) == [i \in 1..Len(s) |-> Op(s[i])]

\* insert row r into the timestamp-ordered sequence s; rows of equal timestamp
\* keep the order given by `after`
RECURSIVE InsertByTs(_, _, _)
InsertByTs(s, r, after) ==
    IF s = <<>> THEN <<r>>
    ELSE IF s[1].ts < r.ts \/ (s[1].ts = r.ts /\ after)
         THEN <<s[1]>> \o InsertByTs(Tail(s), r, after)
         ELSE <<r>> \o s

\* ORDER BY timestamp / list.sort(key=timestamp): rows of equal timestamp come
\* in table order (after = TRUE) or in the reverse of it
RECURSIVE OrderByTimestamp(_, _)
OrderByTimestamp(s, after) ==
    IF s = <<>> THEN <<>>
    ELSE InsertByTs(OrderByTimestamp(SubSeq(s, 1, Len(s) - 1), after), s[Len(s)], after)

PlayerScores(tbl, p) == SeqFilter(tbl, LAMBDA r : r.player = p)
AdjustedOf(rows) == SeqMap(rows, LAMBDA r : r.adj)

\* ------------------------------------------------------------ initial state
SeedIndices ==
    { [c \in Courses |-> Zero],
      [c \in Courses |-> IF c = 1 THEN <<3, 2>> ELSE IF c = 2 THEN <<-3, 2>> ELSE Zero] }

SeedCourse(k) == IF k % 2 = 1 THEN 1 ELSE 2
SeedScore(k) == IF k % 3 = 0 THEN 3 ELSE 0

SeedRows(idx) ==
    LET Adj(k) == RatSub(RatOfInt(SeedScore(k)), idx[SeedCourse(k)])
    IN [k \in 1..SeedLen |->
          [round_id |-> k, ts |-> k, course |-> SeedCourse(k), player |-> 1,
           character |-> "Mario", score |-> SeedScore(k), adj |-> Adj(k),
           rating |-> calculate_player_rating([j \in 1..k |-> Adj(j)]),
           sub |-> 0 - k]]

InitControl(failed) ==
    /\ pending = <<>>
    /\ pc = [p \in AllProcs |-> "idle"]
    /\ loc = [p \in AllProcs |-> IdleLoc]
    /\ nsub = 0
    /\ fails = failed
    /\ ncalls = 0
    /\ gone = {}
    /\ submitted = NoSubmit
    /\ lastrun = NoRun
    /\ sheet = <<>>

InitStore(failed) ==
    /\ indices \in SeedIndices
    /\ scores = SeedRows(indices)
    /\ players = [p \in Players |->
                    IF p = 1 /\ SeedLen > 0
                    THEN [present |-> TRUE, name |-> NameOf(1),
                          rating |-> scores[SeedLen].rating]
                    ELSE NoPlayer]
    /\ clock = SeedLen + 1
    /\ InitControl(failed)

InitWorkflow(failed) ==
    /\ InitStore(failed)
    /\ diff = NoDiff

InitWith(failed) ==
    /\ InitWorkflow(failed)
    /\ calc = CalcIdle
    /\ rank = RankIdle

Init == InitWith(0)

\* ------------------------------------------------------------ store outcome
\* a db_helper call either commits (TRUE) or raises after rollback (FALSE)
Outcomes == IF fails < MaxFails THEN {TRUE, FALSE} ELSE {TRUE}
Count(ok) == fails' = IF ok THEN fails ELSE fails + 1

Goto(p, where) == pc' = [pc EXCEPT ![p] = where]
Respond(p, r) ==
    /\ pc' = [pc EXCEPT ![p] = "done"]
    /\ loc' = [loc EXCEPT ![p].resp = r]

\* handlers of one event loop run one after the other (conc = FALSE); callers
\* that share the store without that event loop interleave (conc = TRUE)
MayBegin(p, conc) ==
    /\ pc[p] = "idle"
    /\ \A q \in Procs : q < p => pc[q] # "idle"   \* invocations are interchangeable
    /\ conc \/ \A q \in AllProcs : pc[q] = "idle"
    /\ conc => ncalls < MaxCalls
    /\ ncalls' = IF conc THEN ncalls + 1 ELSE ncalls

\* ------------------------------------------------------- add_score_to_queue
UnknownCourse == 0                 \* a (course, nine) pair with no row in the courses table

get_course_id_first_course(course) == IF course \in Courses THEN {course} ELSE {1}

\* get_course_id: the course_id rows the SELECT returns; none raises ValueError
get_course_id(course) == IF course \in Courses THEN {course} ELSE {}

add_score_to_queue_creates_player ==
    /\ nsub < MaxSubmits
    /\ \A q \in AllProcs : pc[q] = "idle"
    /\ \E player \in Players, course \in Courses \cup {UnknownCourse},
          character \in Characters, score \in ScoreValues, new_hash \in Hashes,
          tick \in {0, 1}, ok \in Outcomes :
         LET result == get_course_id(course)
             stored == ok /\ result # {}
         IN /\ clock' = clock + tick
            /\ nsub' = nsub + 1
            /\ Count(ok)
            /\ pending' =
                 IF stored
                 THEN Append(pending,
                        [ts |-> clock', hash |-> new_hash,
                         course |-> CHOOSE c \in result : TRUE,
                         player |-> player, name |-> NameOf(player),
                         character |-> character, score |-> score, sub |-> nsub'])
                 ELSE pending
            /\ players' = IF stored /\ ~players[player].present
                          THEN [players EXCEPT ![player] =
                                   [present |-> TRUE, name |-> NameOf(player),
                                    rating |-> INVALID_RATING]]
                          ELSE players
            /\ submitted' = [course |-> course,
                             resp |-> IF stored THEN "queued" ELSE "error",
                             queued |-> IF stored THEN submitted.queued \cup {nsub'}
                                        ELSE submitted.queued,
                             at |-> Append(submitted.at, clock'),
                             dup |-> \/ submitted.dup
                                     \/ stored /\ \E i \in DOMAIN pending :
                                                    pending[i].hash = new_hash]
    /\ lastrun' = NoRun
    /\ UNCHANGED <<scores, indices, pc, loc, gone, ncalls, sheet, calc, rank, diff>>

\* the SELECT of get_course_id and the INSERT are the call's store statements;
\* ok = FALSE: one of them raised.  Every exception is answered with "Error: ..."
add_score_to_queue ==
    /\ nsub < MaxSubmits
    /\ \A q \in AllProcs : pc[q] = "idle"
    /\ \E player \in Players, course \in Courses \cup {UnknownCourse},
          character \in Characters, score \in ScoreValues, new_hash \in Hashes,
          tick \in {0, 1}, ok \in Outcomes :
         LET result == get_course_id(course)
             stored == ok /\ result # {}
         IN /\ clock' = clock + tick
            /\ nsub' = nsub + 1
            /\ Count(ok)
            /\ pending' =
                 IF stored
                 THEN Append(pending,
                        [ts |-> clock', hash |-> new_hash,
                         course |-> CHOOSE c \in result : TRUE,
                         player |-> player, name |-> NameOf(player),
                         character |-> character, score |-> score, sub |-> nsub'])
                 ELSE pending
            /\ submitted' = [course |-> course,
                             resp |-> IF stored THEN "queued" ELSE "error",
                             queued |-> IF stored THEN submitted.queued \cup {nsub'}
                                        ELSE submitted.queued,
                             at |-> Append(submitted.at, clock'),
                             dup |-> \/ submitted.dup
                                     \/ stored /\ \E i \in DOMAIN pending :
                                                    pending[i].hash = new_hash]
    /\ lastrun' = NoRun
    /\ UNCHANGED <<scores, players, indices, pc, loc, gone, ncalls, sheet, calc, rank, diff>>

\* ------------------------------------------------------------- verify_score
verify_score_begin_checks_after_delete(p, conc) ==
    /\ MayBegin(p, conc)
    /\ \E hash \in Hashes, moderator \in BOOLEAN :
         /\ loc' = [loc EXCEPT ![p] =
                      [IdleLoc EXCEPT !.kind = "verify", !.hash = hash,
                                      !.pre = <<pending, scores, players>>,
                                      !.resp = IF moderator THEN "none" ELSE "nopermission"]]
         /\ pc' = [pc EXCEPT ![p] = IF moderator THEN "v_empty" ELSE "done"]
         /\ pending' = IF moderator THEN pending
                       ELSE [i \in 1..(Len(pending) - 1) |-> pending[i + 1]]
    /\ lastrun' = NoRun
    /\ UNCHANGED <<scores, players, indices, clock, nsub, fails, gone, sheet, calc, rank, submitted, diff>>

verify_score_begin(p, conc) ==
    /\ MayBegin(p, conc)
    /\ \E hash \in Hashes, moderator \in BOOLEAN :
         /\ loc' = [loc EXCEPT ![p] =
                      [IdleLoc EXCEPT !.kind = "verify", !.hash = hash,
                                      !.pre = <<pending, scores, players>>,
                                      !.resp = IF moderator THEN "none" ELSE "nopermission"]]
         /\ pc' = [pc EXCEPT ![p] = IF moderator THEN "v_empty" ELSE "done"]
    /\ lastrun' = NoRun
    /\ UNCHANGED <<store, clock, nsub, fails, gone, sheet, calc, rank, submitted, diff>>

\* is_queue_empty: a failed read is answered as "empty"
is_queue_empty(ok) == IF ok THEN pending = <<>> ELSE TRUE

verify_score_empty(p) ==
    /\ pc[p] = "v_empty"
    /\ \E ok \in Outcomes :
         /\ Count(ok)
         /\ IF is_queue_empty(ok)
            THEN Respond(p, "empty")
            ELSE Goto(p, "v_lookup") /\ UNCHANGED loc
    /\ UNCHANGED <<store, clock, nsub, gone, ncalls, sheet, calc, rank, submitted, lastrun, diff>>

\* get_pending_round: the rows SELECT ... WHERE hash = %s LIMIT 1 may return
get_pending_round(hash, ok) ==
    IF ok THEN {i \in 1..Len(pending) : pending[i].hash = hash} ELSE {}

verify_score_lookup(p) ==
    /\ pc[p] = "v_lookup"
    /\ \E ok \in Outcomes :
         /\ Count(ok)
         /\ IF get_pending_round(loc[p].hash, ok) = {}
            THEN Respond(p, "notfound")
            ELSE \E i \in get_pending_round(loc[p].hash, ok) :
                   /\ loc' = [loc EXCEPT ![p].entry = pending[i]]
                   /\ Goto(p, "v_idx")
    /\ UNCHANGED <<store, clock, nsub, gone, ncalls, sheet, calc, rank, submitted, lastrun, diff>>

adjusted_score_wrong_sign(score, difficulty_index) ==
    RatAdd(RatOfInt(score), difficulty_index)

adjusted_score(score, difficulty_index) ==
    RatSub(RatOfInt(score), difficulty_index)

verify_score_index(p) ==
    /\ pc[p] = "v_idx"
    /\ \E ok \in Outcomes :
         /\ Count(ok)
         /\ IF ok
            THEN /\ loc' = [loc EXCEPT ![p].adj =
                              adjusted_score(loc[p].entry.score,
                                             indices[loc[p].entry.course])]
                 /\ Goto(p, "v_insert")
            ELSE Respond(p, "error")
    /\ UNCHANGED <<store, clock, nsub, gone, ncalls, sheet, calc, rank, submitted, lastrun, diff>>

\* the record stamped with a time of verification instead of the entry's
NewScoreRow_verify_time(e, adj, tbl) ==
    [round_id |-> Len(tbl) + 1, ts |-> e.ts + Len(tbl), course |-> e.course,
     player |-> e.player, character |-> e.character, score |-> e.score,
     adj |-> adj, rating |-> NullRating, sub |-> e.sub]

NewScoreRow(e, adj, tbl) ==
    [round_id |-> Len(tbl) + 1, ts |-> e.ts, course |-> e.course,
     player |-> e.player, character |-> e.character, score |-> e.score,
     adj |-> adj, rating |-> NullRating, sub |-> e.sub]

DeleteByHash_all(tbl, hash) == <<>>

\* DELETE FROM pending WHERE hash = %s
DeleteByHash(tbl, hash) == SeqFilter(tbl, LAMBDA e : e.hash # hash)

\* the pending entry deleted before the INSERT is attempted
verify_score_insert_deletes_first(p) ==
    /\ pc[p] = "v_insert"
    /\ \E ok \in Outcomes :
         /\ Count(ok)
         /\ pending' = DeleteByHash(pending, loc[p].hash)
         /\ IF ok
            THEN /\ scores' = Append(scores, NewScoreRow(loc[p].entry, loc[p].adj, scores))
                 /\ loc' = [loc EXCEPT ![p].round = Len(scores) + 1]
                 /\ gone' = gone \cup {loc[p].entry.sub}
                 /\ Goto(p, "v_delete")
            ELSE Respond(p, "error") /\ UNCHANGED <<scores, gone>>
    /\ UNCHANGED <<players, indices, clock, nsub, ncalls, sheet, calc, rank, submitted, lastrun, diff>>

verify_score_insert(p) ==
    /\ pc[p] = "v_insert"
    /\ \E ok \in Outcomes :
         /\ Count(ok)
         /\ IF ok
            THEN /\ scores' = Append(scores, NewScoreRow(loc[p].entry, loc[p].adj, scores))
                 /\ loc' = [loc EXCEPT ![p].round = Len(scores) + 1]
                 /\ gone' = gone \cup {loc[p].entry.sub}
                 /\ Goto(p, "v_delete")
            ELSE Respond(p, "error") /\ UNCHANGED <<scores, gone>>
    /\ UNCHANGED <<pending, players, indices, clock, nsub, ncalls, sheet, calc, rank, submitted, lastrun, diff>>

verify_score_delete(p) ==
    /\ pc[p] = "v_delete"
    /\ \E ok \in Outcomes :
         /\ Count(ok)
         /\ IF ok
            THEN /\ pending' = DeleteByHash(pending, loc[p].hash)
                 /\ loc' = [loc EXCEPT ![p].removed = Len(pending) - Len(pending')]
                 /\ Goto(p, "v_select")
            ELSE Respond(p, "error") /\ UNCHANGED pending
    /\ UNCHANGED <<scores, players, indices, clock, nsub, gone, ncalls, sheet, calc, rank, submitted, lastrun, diff>>

verify_score_select(p) ==
    /\ pc[p] = "v_select"
    /\ \E ok \in Outcomes :
         /\ Count(ok)
         /\ IF ok
            THEN \E after \in BOOLEAN :
                   /\ loc' = [loc EXCEPT ![p].rating =
                                calculate_player_rating(AdjustedOf(OrderByTimestamp(
                                    PlayerScores(scores, loc[p].entry.player), after)))]
                   /\ Goto(p, "v_update")
            ELSE Respond(p, "error")
    /\ UNCHANGED <<store, clock, nsub, gone, ncalls, sheet, calc, rank, submitted, lastrun, diff>>

\* UPDATE scores SET rating = %s WHERE player_id = %s AND timestamp = %s
SetRatingWhere(tbl, player, ts, rating) ==
    [i \in 1..Len(tbl) |->
        IF tbl[i].player = player /\ tbl[i].ts = ts
        THEN [tbl[i] EXCEPT !.rating = rating] ELSE tbl[i]]

verify_score_update(p) ==
    /\ pc[p] = "v_update"
    /\ \E ok \in Outcomes :
         /\ Count(ok)
         /\ IF ok
            THEN /\ scores' = SetRatingWhere(scores, loc[p].entry.player,
                                             loc[p].entry.ts, loc[p].rating)
                 /\ Goto(p, "v_upsert") /\ UNCHANGED loc
            ELSE Respond(p, "error") /\ UNCHANGED scores
    /\ UNCHANGED <<pending, players, indices, clock, nsub, gone, ncalls, sheet, calc, rank, submitted, lastrun, diff>>

UpsertPlayer_insert_only(tbl, player, name, rating) ==
    [tbl EXCEPT ![player] =
        IF tbl[player].present
        THEN tbl[player]
        ELSE [present |-> TRUE, name |-> name, rating |-> rating]]

UpsertPlayer_update_only(tbl, player, name, rating) ==
    [tbl EXCEPT ![player] =
        IF tbl[player].present
        THEN [tbl[player] EXCEPT !.rating = rating]
        ELSE tbl[player]]

\* the upsert also overwriting player_name on conflict
UpsertPlayer_sets_name(tbl, player, name, rating) ==
    [tbl EXCEPT ![player] = [present |-> TRUE, name |-> name, rating |-> rating]]

\* INSERT INTO players ... ON CONFLICT (discord_id) DO UPDATE SET rating
UpsertPlayer(tbl, player, name, rating) ==
    [tbl EXCEPT ![player] =
        IF tbl[player].present
        THEN [tbl[player] EXCEPT !.rating = rating]
        ELSE [present |-> TRUE, name |-> name, rating |-> rating]]

verify_score_upsert(p) ==
    /\ pc[p] = "v_upsert"
    /\ \E ok \in Outcomes :
         /\ Count(ok)
         /\ IF ok
            THEN /\ players' = UpsertPlayer(players, loc[p].entry.player,
                                            loc[p].entry.name, loc[p].rating)
                 /\ Respond(p, "success")
            ELSE Respond(p, "error") /\ UNCHANGED players
    /\ UNCHANGED <<pending, scores, indices, clock, nsub, gone, ncalls, sheet, calc, rank, submitted, lastrun, diff>>

\* -------------------------------------------------- remove_score_from_queue
remove_score_begin(p, conc) ==
    /\ MayBegin(p, conc)
    /\ \E hash \in Hashes, moderator \in BOOLEAN :
         /\ loc' = [loc EXCEPT ![p] =
                      [IdleLoc EXCEPT !.kind = "discard", !.hash = hash,
                                      !.pre = <<pending, scores, players>>,
                                      !.resp = IF moderator THEN "none" ELSE "nopermission"]]
         /\ pc' = [pc EXCEPT ![p] = IF moderator THEN "d_delete" ELSE "done"]
    /\ lastrun' = NoRun
    /\ UNCHANGED <<store, clock, nsub, fails, gone, sheet, calc, rank, submitted, diff>>

remove_score_delete(p) ==
    /\ pc[p] = "d_delete"
    /\ \E ok \in Outcomes :
         /\ Count(ok)
         /\ IF ok
            THEN /\ pending' = DeleteByHash(pending, loc[p].hash)
                 /\ gone' = gone \cup {pending[i].sub : i \in get_pending_round(loc[p].hash, TRUE)}
                 /\ pc' = [pc EXCEPT ![p] = "done"]
                 /\ loc' = [loc EXCEPT ![p].removed = Len(pending) - Len(pending'),
                                       ![p].resp = "success"]
            ELSE Respond(p, "error") /\ UNCHANGED <<pending, gone>>
    /\ UNCHANGED <<scores, players, indices, clock, nsub, ncalls, sheet, calc, rank, submitted, lastrun, diff>>

\* the handler has responded; the invocation is over
Return(p) ==
    /\ pc[p] = "done"
    /\ pc' = [pc EXCEPT ![p] = "idle"]
    /\ loc' = [loc EXCEPT ![p] = IdleLoc]
    /\ lastrun' = IF loc[p].kind = "batch" /\ loc[p].resp = "success"
                  THEN [valid |-> TRUE, scores |-> scores, players |-> players,
                        sheet |-> sheet]
                  ELSE lastrun
    /\ UNCHANGED <<store, clock, nsub, fails, gone, ncalls, sheet, calc, rank, submitted, diff>>

\* ---------------------------------------------------- generate_rankings_table
RatLess(a, b) == a[1] * b[2] < b[1] * a[2]

generate_rankings_begin(conc) ==
    /\ pc[Batch] = "idle"
    /\ conc \/ \A q \in AllProcs : pc[q] = "idle"
    /\ conc => ncalls < MaxCalls
    /\ ncalls' = IF conc THEN ncalls + 1 ELSE ncalls
    /\ pc' = [pc EXCEPT ![Batch] = "b_sel_scores"]
    /\ loc' = [loc EXCEPT ![Batch] =
                 [IdleLoc EXCEPT !.kind = "batch",
                                 !.pre = <<pending, scores, players>>]]
    /\ UNCHANGED <<store, clock, nsub, fails, gone, sheet, calc, rank, submitted, lastrun, diff>>

\* an exception of update_adjusted_scores or update_player_ratings leaves
\* generate_rankings_table uncaught; update_database_from_spreadsheet catches it
Raise(p) == Respond(p, IF loc[p].kind = "batch" THEN "raised" ELSE "error")

\* update_adjusted_scores: SELECT round_id, course_id, score, adjusted_score
update_adjusted_scores_select(p) ==
    /\ pc[p] = "b_sel_scores"
    /\ \E ok \in Outcomes :
         /\ Count(ok)
         /\ IF ok
            THEN loc' = [loc EXCEPT ![p].rows = scores] /\ Goto(p, "b_idx")
            ELSE Raise(p)
    /\ UNCHANGED <<store, clock, nsub, ncalls, gone, sheet, calc, rank, submitted, lastrun, diff>>

\* update_adjusted_scores: entry[3] = entry[2] - indices[entry[1] - 1]; a failed
\* read of the indices gives [] and the first entry raises IndexError
RecalculateAdjusted(rows, idx) ==
    [i \in 1..Len(rows) |->
        [rows[i] EXCEPT !.adj = adjusted_score(rows[i].score, idx[rows[i].course])]]

update_adjusted_scores_recalculate(p) ==
    /\ pc[p] = "b_idx"
    /\ \E ok \in Outcomes :
         /\ Count(ok)
         /\ IF ok \/ loc[p].rows = <<>>
            THEN /\ loc' = [loc EXCEPT ![p].rows =
                              RecalculateAdjusted(loc[p].rows, indices)]
                 /\ Goto(p, "b_upd_adj")
            ELSE Raise(p)
    /\ UNCHANGED <<store, clock, nsub, ncalls, gone, sheet, calc, rank, submitted, lastrun, diff>>

\* UPDATE scores s SET <column> = v.<column> FROM (VALUES ...) v WHERE s.round_id = v.id
UpdateAdjustedById(tbl, values) ==
    [i \in 1..Len(tbl) |->
        IF \E k \in 1..Len(values) : values[k].round_id = tbl[i].round_id
        THEN [tbl[i] EXCEPT !.adj =
                 values[CHOOSE k \in 1..Len(values) :
                           values[k].round_id = tbl[i].round_id].adj]
        ELSE tbl[i]]

UpdateRatingById(tbl, values) ==
    [i \in 1..Len(tbl) |->
        IF \E k \in 1..Len(values) : values[k].round_id = tbl[i].round_id
        THEN [tbl[i] EXCEPT !.rating =
                 values[CHOOSE k \in 1..Len(values) :
                           values[k].round_id = tbl[i].round_id].rating]
        ELSE tbl[i]]

update_adjusted_scores_write(p) ==
    /\ pc[p] = "b_upd_adj"
    /\ \E ok \in Outcomes :
         /\ Count(ok)
         /\ IF ok
            THEN /\ scores' = UpdateAdjustedById(scores, loc[p].rows)
                 /\ Goto(p, "b_sel_ratings") /\ UNCHANGED loc
            ELSE Raise(p) /\ UNCHANGED scores
    /\ UNCHANGED <<pending, players, indices, clock, nsub, ncalls, gone, sheet, calc, rank, submitted, lastrun, diff>>

\* position of the row with this round_id in rows
IndexOfRound(rows, id) == CHOOSE k \in 1..Len(rows) : rows[k].round_id = id

ReplayRatings_whole_history(rows, after) ==
    [i \in 1..Len(rows) |->
        LET mine == OrderByTimestamp(PlayerScores(rows, rows[i].player), after)
        IN [rows[i] EXCEPT !.rating = calculate_player_rating(AdjustedOf(mine))]]

\* update_player_ratings, the loop: each player's rows sorted by timestamp, the
\* rating of each row computed from the adjusted scores up to and including it
ReplayRatings(rows, after) ==
    [i \in 1..Len(rows) |->
        LET mine == OrderByTimestamp(PlayerScores(rows, rows[i].player), after)
            k == IndexOfRound(mine, rows[i].round_id)
        IN [rows[i] EXCEPT !.rating =
               calculate_player_rating(AdjustedOf(SubSeq(mine, 1, k)))]]

\* the rating of the player's first row by timestamp instead of the last
CurrentRatings_first(rows, after) ==
    LET ids == {rows[i].player : i \in 1..Len(rows)}
        First(p) == OrderByTimestamp(PlayerScores(rows, p), after)[1].rating
    IN [p \in ids |-> First(p)]

\* current_ratings: (player_id, rating of the player's last row by timestamp)
CurrentRatings(rows, after) ==
    LET ids == {rows[i].player : i \in 1..Len(rows)}
        Last(p) == LET mine == OrderByTimestamp(PlayerScores(rows, p), after)
                   IN mine[Len(mine)].rating
    IN [p \in ids |-> Last(p)]

update_player_ratings_select(p) ==
    /\ pc[p] = "b_sel_ratings"
    /\ \E ok \in Outcomes :
         /\ Count(ok)
         /\ IF ok
            THEN \E after \in BOOLEAN :
                   /\ loc' = [loc EXCEPT
                                ![p].rows = ReplayRatings(scores, after),
                                ![p].cur = CurrentRatings(ReplayRatings(scores, after), after)]
                   /\ Goto(p, "b_upd_ratings")
            ELSE Raise(p)
    /\ UNCHANGED <<store, clock, nsub, ncalls, gone, sheet, calc, rank, submitted, lastrun, diff>>

update_player_ratings_write_scores(p) ==
    /\ pc[p] = "b_upd_ratings"
    /\ \E ok \in Outcomes :
         /\ Count(ok)
         /\ IF ok
            THEN /\ scores' = UpdateRatingById(scores, loc[p].rows)
                 /\ Goto(p, "b_upd_players") /\ UNCHANGED loc
            ELSE Raise(p) /\ UNCHANGED scores
    /\ UNCHANGED <<pending, players, indices, clock, nsub, ncalls, gone, sheet, calc, rank, submitted, lastrun, diff>>

\* UPDATE players p SET rating = v.rating FROM (VALUES ...) v WHERE p.discord_id = v.discord_id
UpdatePlayerRatings(tbl, current_ratings) ==
    [p \in DOMAIN tbl |->
        IF tbl[p].present /\ p \in DOMAIN current_ratings
        THEN [tbl[p] EXCEPT !.rating = current_ratings[p]] ELSE tbl[p]]

update_player_ratings_write_players(p) ==
    /\ pc[p] = "b_upd_players"
    /\ \E ok \in Outcomes :
         /\ Count(ok)
         /\ IF ok
            THEN /\ players' = UpdatePlayerRatings(players, loc[p].cur)
                 /\ Goto(p, IF loc[p].kind = "batch" THEN "b_rank" ELSE "i_players") /\ UNCHANGED loc
            ELSE Raise(p) /\ UNCHANGED players
    /\ UNCHANGED <<pending, scores, indices, clock, nsub, ncalls, gone, sheet, calc, rank, submitted, lastrun, diff>>

\* rated_players: the rows of the players table whose rating is not INVALID_RATING
RatedPlayers(tbl) ==
    LET ids == {p \in DOMAIN tbl : tbl[p].present /\ tbl[p].rating # INVALID_RATING}
        F[n \in 0..Cardinality(DOMAIN tbl)] ==
            IF n = 0 THEN <<>>
            ELSE IF n \in ids
                 THEN Append(F[n - 1], [name |-> tbl[n].name, rating |-> tbl[n].rating])
                 ELSE F[n - 1]
    IN F[Cardinality(DOMAIN tbl)]

RECURSIVE InsertByRating_unstable(_, _)
InsertByRating_unstable(s, r) ==
    IF s = <<>> THEN <<r>>
    ELSE IF RatLess(s[1].rating.v, r.rating.v)
         THEN <<s[1]>> \o InsertByRating_unstable(Tail(s), r)
         ELSE <<r>> \o s

\* rated_players.sort(key = rating): stable, ascending
RECURSIVE InsertByRating(_, _)
InsertByRating(s, r) ==
    IF s = <<>> THEN <<r>>
    ELSE IF ~RatLess(r.rating.v, s[1].rating.v)
         THEN <<s[1]>> \o InsertByRating(Tail(s), r)
         ELSE <<r>> \o s

RECURSIVE SortByRating(_)
SortByRating(s) ==
    IF s = <<>> THEN <<>>
    ELSE InsertByRating(SortByRating(SubSeq(s, 1, Len(s) - 1)), s[Len(s)])

\* rankings_sheet: [rank, player_name, rating], rank from 1
RankingsSheet(tbl) ==
    LET sorted == SortByRating(RatedPlayers(tbl))
    IN [i \in 1..Len(sorted) |->
          [rank |-> i, name |-> sorted[i].name, rating |-> sorted[i].rating]]

\* sheets_helper.write_data at A4: the written range is overwritten, rows below
\* it are left as they were
WriteData(old, values) ==
    [i \in 1..(IF Len(old) > Len(values) THEN Len(old) ELSE Len(values)) |->
        IF i <= Len(values) THEN values[i] ELSE old[i]]

generate_rankings_publish ==
    /\ pc[Batch] = "b_rank"
    /\ \E ok \in Outcomes :
         /\ Count(ok)
         /\ IF ok
            THEN /\ sheet' = IF RatedPlayers(players) = <<>> THEN sheet
                             ELSE WriteData(sheet, RankingsSheet(players))
                 /\ Respond(Batch, "success")
            ELSE Respond(Batch, "error") /\ UNCHANGED sheet
    /\ UNCHANGED <<store, clock, nsub, ncalls, gone, calc, rank, submitted, lastrun, diff>>

BatchStep(conc) ==
    \/ generate_rankings_begin(conc)
    \/ update_adjusted_scores_select(Batch)
    \/ update_adjusted_scores_recalculate(Batch)
    \/ update_adjusted_scores_write(Batch)
    \/ update_player_ratings_select(Batch)
    \/ update_player_ratings_write_scores(Batch)
    \/ update_player_ratings_write_players(Batch)
    \/ generate_rankings_publish
    \/ Return(Batch)

\* ------------------------------------------ update_database_from_spreadsheet
\* a row of the "Scores" sheet: blank = some cell is empty, numeric = the
\* timestamp, player id and score cells are integer literals
SheetRow(ts, course, player, score) ==
    [ts |-> ts, course |-> course, player |-> player, character |-> "Mario",
     score |-> score, blank |-> FALSE, numeric |-> TRUE]

ScoreSheets ==
    { <<>>,
      <<SheetRow(1, 1, 1, 3)>>,
      <<SheetRow(1, 1, 1, 3), SheetRow(2, 2, 2, 0)>>,
      [k \in 1..MIN_REQUIRED_SCORES |-> SheetRow(k, SeedCourse(k), 2, SeedScore(k))],
      <<SheetRow(1, 1, 1, 3), [SheetRow(2, 1, 1, 0) EXCEPT !.character = "Nobody"]>>,
      <<[SheetRow(1, 1, 1, 3) EXCEPT !.blank = TRUE]>>,
      <<SheetRow(1, 0, 1, 3)>>,
      <<SheetRow(1, 1, 1, 3), [SheetRow(2, 2, 1, 0) EXCEPT !.numeric = FALSE]>> }

\* a row of the "Players" sheet: an id, and a name unless the cell is missing
PlayerSheets ==
    { <<>>,
      <<[id |-> 1, named |-> TRUE]>>,
      <<[id |-> 2, named |-> TRUE], [id |-> 1, named |-> FALSE]>> }

SheetName(id) == <<"sheet", id>>

check_row_valid(row) ==
    /\ ~row.blank
    /\ row.course \in Courses
    /\ row.character \in Characters

update_database_begin(p, conc) ==
    /\ MayBegin(p, conc)
    /\ \E moderator \in BOOLEAN, data \in ScoreSheets, names \in PlayerSheets :
         LET valid == \A i \in 1..Len(data) : check_row_valid(data[i])
         IN /\ loc' = [loc EXCEPT ![p] =
                         [IdleLoc EXCEPT !.kind = "import", !.data = data, !.names = names,
                                         !.pre = <<pending, scores, players>>,
                                         !.resp = IF ~moderator THEN "nopermission"
                                                  ELSE IF ~valid THEN "invalid" ELSE "none"]]
            /\ pc' = [pc EXCEPT ![p] = IF moderator /\ valid THEN "i_truncate" ELSE "done"]
    /\ lastrun' = NoRun
    /\ UNCHANGED <<store, clock, nsub, fails, gone, sheet, calc, rank, submitted, diff>>

\* TRUNCATE TABLE scores, players RESTART IDENTITY
update_database_truncate(p) ==
    /\ pc[p] = "i_truncate"
    /\ \E ok \in Outcomes :
         /\ Count(ok)
         /\ IF ok
            THEN /\ scores' = <<>>
                 /\ players' = [q \in Players |-> NoPlayer]
                 /\ Goto(p, "i_insert") /\ UNCHANGED loc
            ELSE Respond(p, "error") /\ UNCHANGED <<scores, players>>
    /\ UNCHANGED <<pending, indices, clock, nsub, ncalls, gone, sheet, calc, rank, submitted, lastrun, diff>>

\* insert_data: the sheet rows with the dummy adjusted score 0.0
InsertData(data) ==
    [i \in 1..Len(data) |->
        [round_id |-> i, ts |-> data[i].ts, course |-> data[i].course,
         player |-> data[i].player, character |-> data[i].character,
         score |-> data[i].score, adj |-> Zero, rating |-> NullRating, sub |-> 0 - i]]

update_database_insert(p) ==
    /\ pc[p] = "i_insert"
    /\ IF \E i \in 1..Len(loc[p].data) : ~loc[p].data[i].numeric
       THEN Respond(p, "error") /\ UNCHANGED <<scores, fails>>     \* int() raises ValueError
       ELSE \E ok \in Outcomes :
              /\ Count(ok)
              /\ IF ok
                 THEN /\ scores' = InsertData(loc[p].data)
                      /\ Goto(p, "b_sel_scores") /\ UNCHANGED loc
                 ELSE Respond(p, "error") /\ UNCHANGED scores
    /\ UNCHANGED <<pending, players, indices, clock, nsub, ncalls, gone, sheet, calc, rank, submitted, lastrun, diff>>

update_database_select_players(p) ==
    /\ pc[p] = "i_players"
    /\ \E ok \in Outcomes :
         /\ Count(ok)
         /\ IF ok
            THEN loc' = [loc EXCEPT ![p].k = 1] /\ Goto(p, "i_loop")
            ELSE Respond(p, "error")
    /\ UNCHANGED <<store, clock, nsub, ncalls, gone, sheet, calc, rank, submitted, lastrun, diff>>

\* SELECT rating FROM scores WHERE (player_id, timestamp) IN (the player's MAX(timestamp))
LatestRows(tbl, player) ==
    {i \in 1..Len(tbl) :
        /\ tbl[i].player = player
        /\ \A j \in 1..Len(tbl) : tbl[j].player = player => tbl[j].ts <= tbl[i].ts}

\* INSERT INTO players ... ON CONFLICT DO UPDATE SET rating, player_name
UpsertPlayerNamed(tbl, player, name, rating) ==
    [tbl EXCEPT ![player] = [present |-> TRUE, name |-> name, rating |-> rating]]

update_database_player(p) ==
    /\ pc[p] = "i_loop"
    /\ LET k == loc[p].k
           names == loc[p].names
       IN IF k > Len(names)
          THEN /\ Respond(p, IF \E i \in 1..Len(names) : ~names[i].named THEN "unnamed"
                             ELSE IF \E i \in 1..Len(names) : LatestRows(scores, names[i].id) = {}
                                  THEN "noscores" ELSE "success")
               /\ UNCHANGED <<players, fails>>
          ELSE IF ~names[k].named \/ names[k].id \notin Players
               THEN /\ loc' = [loc EXCEPT ![p].k = k + 1]
                    /\ UNCHANGED <<players, fails, pc>>
               ELSE \E ok \in Outcomes :
                      /\ Count(ok)
                      /\ IF ~ok THEN Respond(p, "error") /\ UNCHANGED players
                         ELSE IF LatestRows(scores, names[k].id) = {}
                         THEN /\ loc' = [loc EXCEPT ![p].k = k + 1]
                              /\ UNCHANGED <<players, pc>>
                         ELSE \E i \in LatestRows(scores, names[k].id) :
                                /\ players' = UpsertPlayerNamed(players, names[k].id,
                                                  SheetName(names[k].id), scores[i].rating)
                                /\ loc' = [loc EXCEPT ![p].k = k + 1]
                                /\ UNCHANGED pc
    /\ UNCHANGED <<pending, scores, indices, clock, nsub, ncalls, gone, sheet, calc, rank, submitted, lastrun, diff>>

ImportStep(p, conc) ==
    \/ update_database_begin(p, conc)
    \/ update_database_truncate(p)
    \/ update_database_insert(p)
    \/ update_adjusted_scores_select(p)
    \/ update_adjusted_scores_recalculate(p)
    \/ update_adjusted_scores_write(p)
    \/ update_player_ratings_select(p)
    \/ update_player_ratings_write_scores(p)
    \/ update_player_ratings_write_players(p)
    \/ update_database_select_players(p)
    \/ update_database_player(p)
    \/ Return(p)

Step(p, conc) ==
    \/ verify_score_begin(p, conc)
    \/ verify_score_empty(p)
    \/ verify_score_lookup(p)
    \/ verify_score_index(p)
    \/ verify_score_insert(p)
    \/ verify_score_delete(p)
    \/ verify_score_select(p)
    \/ verify_score_update(p)
    \/ verify_score_upsert(p)
    \/ remove_score_begin(p, conc)
    \/ remove_score_delete(p)
    \/ Return(p)

Next == add_score_to_queue \/ BatchStep(FALSE) \/ \E p \in Procs : Step(p, FALSE)

Spec == Init /\ [][Next]_vars

NextConc == add_score_to_queue \/ \E p \in Procs : Step(p, TRUE)

\* concurrent callers on a store whose statements all commit
InitConc == InitWith(MaxFails)

SpecConc == InitConc /\ [][NextConc]_vars

\* one caller's verify_score
VerifyStep(p, conc) ==
    \/ verify_score_begin(p, conc)
    \/ verify_score_empty(p)
    \/ verify_score_lookup(p)
    \/ verify_score_index(p)
    \/ verify_score_insert(p)
    \/ verify_score_delete(p)
    \/ verify_score_select(p)
    \/ verify_score_update(p)
    \/ verify_score_upsert(p)
    \/ Return(p)

\* the ranking run and one verify_score at a time, their store statements
\* interleaved, on a store whose statements all commit
NextRace == add_score_to_queue \/ BatchStep(TRUE) \/ VerifyStep(1, TRUE)

SpecRace == InitConc /\ [][NextRace]_vars

\* ---------------------------------------------- change_player_display_name
MaxNameLength == 32                \* the longest new_name the command accepts

\* the names a caller may ask for: a text of the given number of characters
NewName(n) == <<"new", n>>
NewNames == {NewName(MaxNameLength), NewName(MaxNameLength + 1)}

\* len(name)
NameLength(name) == IF name[1] = "new" THEN name[2] ELSE 1

\* the check accepting every length
NameTooLong_never(name) == FALSE

\* len(new_name) > 32
NameTooLong(name) == NameLength(name) > MaxNameLength

change_name_begin(p, conc) ==
    /\ MayBegin(p, conc)
    /\ \E player \in Players, new_name \in NewNames :
         /\ loc' = [loc EXCEPT ![p] =
                      [IdleLoc EXCEPT !.kind = "rename",
                                      !.entry = [NoEntry EXCEPT !.player = player,
                                                                !.name = new_name],
                                      !.pre = <<pending, scores, players>>,
                                      !.resp = IF NameTooLong(new_name) THEN "toolong"
                                               ELSE "none"]]
         /\ pc' = [pc EXCEPT ![p] = IF NameTooLong(new_name) THEN "done" ELSE "n_select"]
    /\ lastrun' = NoRun
    /\ UNCHANGED <<store, clock, nsub, fails, gone, sheet, calc, rank, submitted, diff>>

\* the membership test accepting every caller
HasPlayerRow_always(tbl, player) == TRUE

\* player_id in player_ids
HasPlayerRow(tbl, player) == tbl[player].present

\* SELECT discord_id FROM players, then the membership test; the command has
\* no handler for an exception of the store
change_name_select(p) ==
    /\ pc[p] = "n_select"
    /\ \E ok \in Outcomes :
         /\ Count(ok)
         /\ IF ok
            THEN IF HasPlayerRow(players, loc[p].entry.player)
                 THEN Goto(p, "n_update") /\ UNCHANGED loc
                 ELSE Respond(p, "noplayer")
            ELSE Raise(p)
    /\ UNCHANGED <<store, clock, nsub, ncalls, gone, sheet, calc, rank, submitted, lastrun, diff>>

\* the update also creating the row of a caller who has none
SetPlayerName_creates(tbl, player, name) ==
    [tbl EXCEPT ![player] =
        IF tbl[player].present THEN [tbl[player] EXCEPT !.name = name]
        ELSE [present |-> TRUE, name |-> name, rating |-> INVALID_RATING]]

\* the update also clearing the rating
SetPlayerName_clears_rating(tbl, player, name) ==
    [tbl EXCEPT ![player] =
        IF tbl[player].present THEN [tbl[player] EXCEPT !.name = name, !.rating = NullRating]
        ELSE tbl[player]]

\* UPDATE players SET player_name = new_name WHERE discord_id = player_id
SetPlayerName(tbl, player, name) ==
    [tbl EXCEPT ![player] =
        IF tbl[player].present THEN [tbl[player] EXCEPT !.name = name]
        ELSE tbl[player]]

change_name_update(p) ==
    /\ pc[p] = "n_update"
    /\ \E ok \in Outcomes :
         /\ Count(ok)
         /\ IF ok
            THEN /\ players' = SetPlayerName(players, loc[p].entry.player,
                                             loc[p].entry.name)
                 /\ Respond(p, "success")
            ELSE Raise(p) /\ UNCHANGED players
    /\ UNCHANGED <<pending, scores, indices, clock, nsub, ncalls, gone, sheet, calc, rank, submitted, lastrun, diff>>

NameStep(p, conc) ==
    \/ change_name_begin(p, conc)
    \/ change_name_select(p)
    \/ change_name_update(p)

\* submissions, verifications, the ranking run and name changes, one handler
\* at a time
NextName ==
    add_score_to_queue \/ BatchStep(FALSE) \/ VerifyStep(1, FALSE) \/ NameStep(1, FALSE)

SpecName == Init /\ [][NextName]_vars

\* the spreadsheet import on its own
NextImport == \E p \in Procs : ImportStep(p, FALSE)

SpecImport == Init /\ [][NextImport]_vars

\* submissions, verifications, discards and ranking runs, one handler at a
\* time, on a store whose statements all commit
SpecComplete == InitConc /\ [][Next]_vars

\* the spreadsheet import and the ranking run, one handler at a time
NextSheet == BatchStep(FALSE) \/ \E p \in Procs : ImportStep(p, FALSE)

SpecSheet == Init /\ [][NextSheet]_vars

\* ------------------------------------- calculate_player_rating on its own
RatingInputs == {<<0, 1>>, <<3, 2>>, <<-1, 1>>}      \* adjusted scores

rating_extend ==
    /\ ~calc.done
    /\ Len(calc.scores) < MaxRatingLen
    /\ \E s \in RatingInputs : calc' = [calc EXCEPT !.scores = Append(@, s)]
    /\ UNCHANGED <<workflow, rank>>

rating_apply ==
    /\ ~calc.done
    /\ calc' = [calc EXCEPT !.result = calculate_player_rating(calc.scores),
                            !.done = TRUE]
    /\ UNCHANGED <<workflow, rank>>

NextRating == rating_extend \/ rating_apply

SpecRating == Init /\ [][NextRating]_vars

\* --------------------------- calculate_player_rating on 40 scores and more
\* 40 scores of the values a and b, b at every third position from m on
WindowTail(a, b, m) ==
    [i \in 1..ROLLING_AVERAGE_WINDOW |-> IF i % 3 = m THEN b ELSE a]

OldScores == UNION {[1..n -> RatingInputs] : n \in 0..MaxOld}

WindowInputs ==
    {old \o WindowTail(a, b, m) : old \in OldScores, a \in RatingInputs,
                                  b \in RatingInputs, m \in 0..2}

InitWindow ==
    /\ InitWorkflow(0)
    /\ calc \in {[CalcIdle EXCEPT !.scores = s] : s \in WindowInputs}
    /\ rank = RankIdle

\* the function applied again after one of the scores older than the last 40
\* was replaced
rating_change_old ==
    /\ calc.done /\ ~calc.changed
    /\ \E i \in 1..(Len(calc.scores) - ROLLING_AVERAGE_WINDOW) :
       \E s \in RatingInputs \ {calc.scores[i]} :
         calc' = [calc EXCEPT !.scores = [calc.scores EXCEPT ![i] = s],
                              !.prev = calc.result,
                              !.result = calculate_player_rating(
                                             [calc.scores EXCEPT ![i] = s]),
                              !.changed = TRUE]
    /\ UNCHANGED <<workflow, rank>>

NextWindow == rating_apply \/ rating_change_old

SpecWindow == InitWindow /\ [][NextWindow]_vars

\* ------------------------------------------------ update_difficulty_indices
\* the function is defined in bot_commands.py and called from nowhere: the task
\* that would run it is not defined and its start is commented out (bot.py)
CourseRows(tbl, p, c) == SeqFilter(tbl, LAMBDA r : r.player = p /\ r.course = c)

\* the players with at least NUM_REQUIRED_SCORES rounds on some course
EligiblePlayers_some_course(tbl, ptbl) ==
    {p \in DOMAIN ptbl :
        /\ ptbl[p].present
        /\ \E c \in Courses : Len(CourseRows(tbl, p, c)) >= NUM_REQUIRED_SCORES}

\* the players with at least NUM_REQUIRED_SCORES rounds on every course
EligiblePlayers(tbl, ptbl) ==
    {p \in DOMAIN ptbl :
        /\ ptbl[p].present
        /\ \A c \in Courses : Len(CourseRows(tbl, p, c)) >= NUM_REQUIRED_SCORES}

\* average of all the player's raw scores on the course
PlayerCourseAverage_all_rounds(tbl, p, c) ==
    LET all == SeqMap(CourseRows(tbl, p, c), LAMBDA r : RatOfInt(r.score))
    IN RatDivInt(RatSum(all), Len(all))

\* average of the player's most recent NUM_REQUIRED_SCORES raw scores on the course
PlayerCourseAverage(tbl, p, c) ==
    LET recent == LastN(SeqMap(OrderByTimestamp(CourseRows(tbl, p, c), TRUE),
                               LAMBDA r : RatOfInt(r.score)),
                        NUM_REQUIRED_SCORES)
    IN RatDivInt(RatSum(recent), Len(recent))

\* final_averages[course]: average over the eligible players
CourseAverage(tbl, ptbl, c) ==
    LET ids == SeqFilter([i \in 1..Cardinality(DOMAIN ptbl) |-> i],
                         LAMBDA i : i \in EligiblePlayers(tbl, ptbl))
    IN RatDivInt(RatSum([k \in 1..Len(ids) |-> PlayerCourseAverage(tbl, ids[k], c)]),
                 Len(ids))

\* final_averages is empty: sum(...) / len(final_averages) at overall_avg
\* raises ZeroDivisionError, which nothing catches
DivisionByZero(tbl, ptbl) == EligiblePlayers(tbl, ptbl) = {}

\* zero written for every course when nobody is eligible
update_difficulty_indices_zero_when_empty(tbl, ptbl, old) ==
    IF EligiblePlayers(tbl, ptbl) = {} THEN [c \in Courses |-> Zero]
    ELSE LET overall_avg ==
                 RatDivInt(RatSum([c \in 1..Cardinality(Courses) |->
                                      CourseAverage(tbl, ptbl, c)]),
                           Cardinality(Courses))
         IN [c \in Courses |-> RatSub(CourseAverage(tbl, ptbl, c), overall_avg)]

\* the course averages themselves, not centred
update_difficulty_indices_uncentered(tbl, ptbl, old) ==
    IF EligiblePlayers(tbl, ptbl) = {} THEN old
    ELSE [c \in Courses |-> CourseAverage(tbl, ptbl, c)]

\* the indices the function leaves in the courses table: course average minus
\* the average of the course averages; with no eligible player the division at
\* overall_avg raises ZeroDivisionError and nothing is written
update_difficulty_indices(tbl, ptbl, old) ==
    IF DivisionByZero(tbl, ptbl) THEN old
    ELSE LET overall_avg ==
                 RatDivInt(RatSum([c \in 1..Cardinality(Courses) |->
                                      CourseAverage(tbl, ptbl, c)]),
                           Cardinality(Courses))
         IN [c \in Courses |-> RatSub(CourseAverage(tbl, ptbl, c), overall_avg)]

\* ------------------------------------ update_difficulty_indices on its own
\* a row of SELECT s.player_id, s.course_id, s.timestamp, s.score; the k-th
\* round of player p on course c
DiffRow(p, c, k, s) ==
    [player |-> p, course |-> c, ts |-> 10 * k + 2 * (p - 1) + c, score |-> s]

\* n rounds of player p on course c, the oldest with raw score first
Block(p, c, n, first, rest) ==
    [k \in 1..n |-> DiffRow(p, c, k, IF k = 1 THEN first ELSE rest)]

\* player 1 with n11 and n12 rounds on the two courses; player 2 absent, with
\* 8 and 7 rounds ("partial") or with 8 and 8 ("full"); late: the oldest round
\* of player 1 on course 1 is the last row of the table
DiffLedger(n11, n12, a, b, mode, c, late) ==
    LET p1c1 == Block(1, 1, n11, 0 - 2, a)
        p1c2 == Block(1, 2, n12, b, b)
        p2 == IF mode = "absent" THEN <<>>
              ELSE Block(2, 1, NUM_REQUIRED_SCORES, c, c)
                   \o Block(2, 2, IF mode = "full" THEN NUM_REQUIRED_SCORES
                                  ELSE NUM_REQUIRED_SCORES - 1, 1, 1)
    IN [tbl |-> IF late THEN Tail(p1c1) \o p1c2 \o p2 \o <<p1c1[1]>>
                ELSE p1c1 \o p1c2 \o p2,
        ptbl |-> [p \in Players |->
                    IF p = 1 \/ mode # "absent"
                    THEN [present |-> TRUE, name |-> NameOf(p), rating |-> NullRating]
                    ELSE NoPlayer]]

DiffLedgers ==
    {DiffLedger(n11, n12, a, b, mode, c, late) :
        n11 \in NUM_REQUIRED_SCORES..(NUM_REQUIRED_SCORES + MaxExtra),
        n12 \in {NUM_REQUIRED_SCORES - 1, NUM_REQUIRED_SCORES},
        a \in {0, 3}, b \in {0, 3}, mode \in {"absent", "partial", "full"},
        c \in {1, 4}, late \in BOOLEAN}

\* the ledger is the input, the indices of the courses table the values the
\* function would leave in place
InitDifficulty ==
    /\ InitStore(0)
    /\ calc = CalcIdle
    /\ rank = RankIdle
    /\ diff \in {[NoDiff EXCEPT !.tbl = l.tbl, !.ptbl = l.ptbl, !.old = indices] :
                    l \in DiffLedgers}

\* the function applied to the ledger
difficulty_apply ==
    /\ ~diff.done
    /\ diff' = [diff EXCEPT
                  !.result = update_difficulty_indices(diff.tbl, diff.ptbl, diff.old),
                  !.wrote = ~DivisionByZero(diff.tbl, diff.ptbl),
                  !.resp = IF DivisionByZero(diff.tbl, diff.ptbl) THEN "raised" ELSE "done",
                  !.done = TRUE]
    /\ UNCHANGED <<store, clock, pc, loc, nsub, fails, ncalls, gone, submitted,
                   lastrun, sheet, calc, rank>>

\* the rounds of player p on course c in the table
RoundsOn(tbl, p, c) == {i \in DOMAIN tbl : tbl[i].player = p /\ tbl[i].course = c}

\* player p has fewer than NUM_REQUIRED_SCORES rounds on some course
ShortOnSomeCourse(tbl, p) ==
    \E c \in Courses : Cardinality(RoundsOn(tbl, p, c)) < NUM_REQUIRED_SCORES

RemoveAt(s, i) == SubSeq(s, 1, i - 1) \o SubSeq(s, i + 1, Len(s))

\* the ledgers that differ from tbl in one round of a player who is short of
\* rounds on some course before and after: a raw score changed, a round
\* removed, a round added
IneligibleChanges(tbl, ptbl) ==
    LET short == {p \in Players : ptbl[p].present /\ ShortOnSomeCourse(tbl, p)}
        mine == {i \in DOMAIN tbl : tbl[i].player \in short}
    IN {[tbl EXCEPT ![i].score = @ + 5] : i \in mine}
       \cup {RemoveAt(tbl, i) : i \in mine}
       \cup {t \in {Append(tbl, DiffRow(p, c, 2 * NUM_REQUIRED_SCORES, 7)) :
                       p \in short, c \in Courses} :
               \A p \in short : ShortOnSomeCourse(t, p)}

\* the function applied again after a change to the rounds of such a player
difficulty_change_ineligible ==
    /\ diff.done /\ diff.changed = "none"
    /\ \E t \in IneligibleChanges(diff.tbl, diff.ptbl) :
         diff' = [diff EXCEPT
                    !.tbl = t,
                    !.prev = diff.result,
                    !.result = update_difficulty_indices(t, diff.ptbl, diff.old),
                    !.wrote = ~DivisionByZero(t, diff.ptbl),
                    !.resp = IF DivisionByZero(t, diff.ptbl) THEN "raised" ELSE "done",
                    !.changed = "ineligible"]
    /\ UNCHANGED <<store, clock, pc, loc, nsub, fails, ncalls, gone, submitted,
                   lastrun, sheet, calc, rank>>

\* the rounds with at least NUM_REQUIRED_SCORES later rounds of the same player
\* on the same course
OldRounds(tbl) ==
    {i \in DOMAIN tbl :
        Cardinality({j \in RoundsOn(tbl, tbl[i].player, tbl[i].course) :
                        tbl[j].ts > tbl[i].ts}) >= NUM_REQUIRED_SCORES}

\* the function applied again after the raw score of such a round was changed
difficulty_change_old ==
    /\ diff.done /\ diff.changed = "none"
    /\ \E i \in OldRounds(diff.tbl), d \in {0 - 4, 5} :
         LET t == [diff.tbl EXCEPT ![i].score = @ + d]
         IN diff' = [diff EXCEPT
                       !.tbl = t,
                       !.prev = diff.result,
                       !.result = update_difficulty_indices(t, diff.ptbl, diff.old),
                       !.wrote = ~DivisionByZero(t, diff.ptbl),
                       !.resp = IF DivisionByZero(t, diff.ptbl) THEN "raised" ELSE "done",
                       !.changed = "old"]
    /\ UNCHANGED <<store, clock, pc, loc, nsub, fails, ncalls, gone, submitted,
                   lastrun, sheet, calc, rank>>

NextDifficulty ==
    difficulty_apply \/ difficulty_change_ineligible \/ difficulty_change_old

SpecDifficulty == InitDifficulty /\ [][NextDifficulty]_vars


\* ---------------------- the ranking run on a ledger with an eligible player
\* n rounds of player 1, alternating between the two courses, raw score a on
\* course 1 and b on course 2, adjusted and rated under the indices idx
IndexRows(idx, n, a, b) ==
    LET Score(k) == IF SeedCourse(k) = 1 THEN a ELSE b
        Adj(k) == RatSub(RatOfInt(Score(k)), idx[SeedCourse(k)])
    IN [k \in 1..n |->
          [round_id |-> k, ts |-> k, course |-> SeedCourse(k), player |-> 1,
           character |-> "Mario", score |-> Score(k), adj |-> Adj(k),
           rating |-> calculate_player_rating([j \in 1..k |-> Adj(j)]),
           sub |-> 0 - k]]

InitIndices ==
    /\ indices \in SeedIndices
    /\ \E n \in {MaxIndexRows - 1, MaxIndexRows}, a \in {0, 3}, b \in {0, 3} :
         /\ scores = IndexRows(indices, n, a, b)
         /\ clock = n + 1
    /\ players = [p \in Players |->
                    IF p = 1
                    THEN [present |-> TRUE, name |-> NameOf(1),
                          rating |-> scores[Len(scores)].rating]
                    ELSE NoPlayer]
    /\ InitControl(0)
    /\ diff = NoDiff
    /\ calc = CalcIdle
    /\ rank = RankIdle

NextIndices == BatchStep(FALSE)

SpecIndices == InitIndices /\ [][NextIndices]_vars

\* ------------------------------ the ranking of generate_rankings_table alone
RankedRatings ==
    {INVALID_RATING, RatingOf(<<0, 1>>), RatingOf(<<3, 2>>), RatingOf(<<-1, 1>>)}

\* the rows of SELECT player_id, rating, player_name FROM players
RankingTables ==
    UNION {{[i \in 1..n |-> [present |-> TRUE, name |-> NameOf(i), rating |-> r[i]]] :
               r \in [1..n -> RankedRatings]} : n \in 0..MaxRanked}

InitRanking ==
    /\ InitWorkflow(0)
    /\ calc = CalcIdle
    /\ rank \in {[RankIdle EXCEPT !.tbl = tbl] : tbl \in RankingTables}

ranking_build ==
    /\ ~rank.done
    /\ rank' = [rank EXCEPT !.result = RankingsSheet(rank.tbl), !.done = TRUE]
    /\ UNCHANGED <<workflow, calc>>

NextRanking == ranking_build

SpecRanking == InitRanking /\ [][NextRanking]_vars

\* ==================================================================== claims

Responded(p, kind, resp) ==
    pc[p] = "done" /\ loc[p].kind = kind /\ loc[p].resp = resp

\* C1 (as claimed): once a submission has been promoted by verify_score or
\* discarded by remove_score_from_queue, no later lookup of its id by
\* verify_score finds its pending entry.
C1_NoLookupAfterTransition ==
    \A p \in Procs : pc[p] = "v_idx" => loc[p].entry.sub \notin gone

\* C2 (as claimed): when two verify_score calls, or a verify_score and a
\* remove_score_from_queue call, interleave their store statements, at most
\* one ScoreRecord is appended to the ledger for a submission.
C2_AtMostOneRecordPerSubmission ==
    \A i, j \in DOMAIN scores : scores[i].sub = scores[j].sub => i = j

\* C3 (as claimed): a call on a pending id reports success only if it made the
\* transition; a discard of an id that is not in the queue does not report
\* success (it reports not-found).
C3_DiscardOfAbsentIdIsNotSuccess ==
    \A p \in Procs : Responded(p, "discard", "success") => loc[p].removed > 0

\* C4 (as claimed): a verify_score in which a store statement failed leaves the
\* pending queue, the ledger and the players table as they were before the call.
C4_FailedVerifyLeavesStateUnchanged ==
    \A p \in Procs :
        Responded(p, "verify", "error") => <<pending, scores, players>> = loc[p].pre

\* C5 (as claimed, between handlers): every ScoreRecord's adjusted score is its
\* raw score minus the stored difficulty index of its course.
C5_AdjustedScoreMatchesIndex ==
    (\A p \in AllProcs : pc[p] = "idle") =>
        \A i \in DOMAIN scores :
            scores[i].adj = RatSub(RatOfInt(scores[i].score), indices[scores[i].course])

\* no handler is running, no store statement has failed so far, and no player
\* has two ScoreRecords of the same timestamp
Quiet ==
    /\ fails = 0
    /\ \A p \in AllProcs : pc[p] = "idle"
    /\ \A i, j \in DOMAIN scores :
          (scores[i].player = scores[j].player /\ scores[i].ts = scores[j].ts) => i = j

\* C6 (as claimed, between failure-free handlers): the stored rating of a
\* player's Nth ScoreRecord in timestamp order is calculate_player_rating of the
\* player's first N adjusted scores in timestamp order.
C6_SnapshotIsRatingOfPrefix ==
    Quiet =>
        \A who \in Players :
            LET rows == OrderByTimestamp(PlayerScores(scores, who), TRUE)
            IN \A k \in 1..Len(rows) :
                  rows[k].rating = calculate_player_rating(AdjustedOf(SubSeq(rows, 1, k)))

\* C7 (as claimed, between failure-free handlers): a player's current rating is
\* the stored rating of the player's latest ScoreRecord by timestamp.
C7_CurrentRatingIsLatestSnapshot ==
    Quiet =>
        \A who \in Players :
            players[who].present =>
                \E i \in DOMAIN scores :
                    /\ scores[i].player = who
                    /\ \A j \in DOMAIN scores :
                          scores[j].player = who => scores[j].ts <= scores[i].ts
                    /\ players[who].rating = scores[i].rating

\* the row without its rating column
WithoutRating(r) == [r EXCEPT !.rating = NullRating]

\* C8: a successful verify_score appends exactly one ScoreRecord; it carries the
\* pending entry's timestamp, course, player, character and raw score, and its
\* adjusted score is the raw score minus the course's stored difficulty index.
C8_VerifyAppendsTheEntry ==
    \A p \in Procs :
        Responded(p, "verify", "success") =>
            LET before == loc[p].pre[2]
                e == loc[p].entry
                row == scores[Len(scores)]
            IN /\ Len(scores) = Len(before) + 1
               /\ \A i \in 1..Len(before) : WithoutRating(scores[i]) = WithoutRating(before[i])
               /\ \E i \in 1..Len(loc[p].pre[1]) :
                     loc[p].pre[1][i] = e /\ e.hash = loc[p].hash
               /\ row.ts = e.ts /\ row.course = e.course /\ row.player = e.player
               /\ row.character = e.character /\ row.score = e.score
               /\ row.adj = RatSub(RatOfInt(e.score), indices[e.course])

\* C8 witness: raw +3 verified on a course of index 1.5 gave adjusted score 1.5
C8_Witness ==
    \E p \in Procs :
        /\ Responded(p, "verify", "success")
        /\ loc[p].entry.score = 3
        /\ indices[loc[p].entry.course] = <<3, 2>>
        /\ scores[Len(scores)].adj = <<3, 2>>

\* C9: after a successful verify_score the player's current rating is
\* calculate_player_rating of all of the player's adjusted scores in the
\* ledger, the new one included, in timestamp order.
C9_RatingCoversAllScores ==
    \A p \in Procs :
        Responded(p, "verify", "success") =>
            LET who == loc[p].entry.player
            IN /\ players[who].present
               /\ players[who].rating =
                     calculate_player_rating(AdjustedOf(
                         OrderByTimestamp(PlayerScores(scores, who), TRUE)))

\* C9 witness: a verify gave a player with at least 6 records a numeric rating
C9_Witness ==
    \E p \in Procs :
        /\ Responded(p, "verify", "success")
        /\ Len(PlayerScores(scores, loc[p].entry.player)) >= MIN_REQUIRED_SCORES
        /\ players[loc[p].entry.player].rating.kind = "val"

\* C10: calculate_player_rating returns the unrated sentinel exactly for the
\* inputs of fewer than 6 scores, the empty one included.
C10_UnratedBelowMinimum ==
    calc.done => (calc.result = INVALID_RATING <=> Len(calc.scores) < 6)

\* C10 witness: the function was applied to 5 scores and answered unrated
C10_Witness ==
    calc.done /\ Len(calc.scores) = 5 /\ calc.result = INVALID_RATING

\* C11: for an input of at least 6 and fewer than 40 scores
\* calculate_player_rating returns the exact arithmetic mean of all the scores:
\* the result times the count equals the sum.
C11_MeanOfAllScores ==
    (calc.done /\ Len(calc.scores) >= 6 /\ Len(calc.scores) < 40) =>
        LET sum == RatSum(calc.scores)
            r == calc.result
        IN /\ r.kind = "val"
           /\ r.v[2] > 0
           /\ r.v[1] * Len(calc.scores) * sum[2] = sum[1] * r.v[2]

\* C11 witness: six scores of 0 gave the rating 0; seven mixed scores gave a
\* rating that is not an integer
C11_Witness ==
    /\ calc.done
    /\ \/ calc.scores = [i \in 1..6 |-> <<0, 1>>] /\ calc.result = RatingOf(<<0, 1>>)
       \/ Len(calc.scores) = 7 /\ calc.result.kind = "val" /\ calc.result.v[2] > 1

\* C12: for an input of 40 scores or more, oldest first, calculate_player_rating
\* returns the mean of the last 40 scores: the result times 40 equals their
\* sum, and replacing a score older than the last 40 leaves the result as it was.
C12_MeanOfLastForty ==
    (calc.done /\ Len(calc.scores) >= 40) =>
        LET n == Len(calc.scores)
            sum == RatSum([i \in 1..40 |-> calc.scores[n - 40 + i]])
            r == calc.result
        IN /\ r.kind = "val"
           /\ r.v[2] > 0
           /\ r.v[1] * 40 * sum[2] = sum[1] * r.v[2]
           /\ calc.changed => calc.result = calc.prev

\* C12 witness: 42 scores whose overall mean differs from the mean of the last
\* 40; one of the two oldest was replaced and the rating stayed the same
C12_Witness ==
    /\ calc.done /\ calc.changed
    /\ Len(calc.scores) = 42
    /\ calc.result = calc.prev
    /\ calc.result # RatingOf(RatDivInt(RatSum(calc.scores), 42))

\* C13: when update_player_ratings has completed, the stored rating of every
\* player's k-th record in timestamp order is calculate_player_rating of the
\* player's first k adjusted scores (records of one timestamp in the order the
\* run's sort left them), for every k up to the number of the player's records;
\* so the last one is the rating of the whole sequence, and no snapshot depends
\* on a later score.
C13_ReplayWritesPrefixRatings ==
    pc[Batch] = "b_rank" =>
        \E after \in BOOLEAN :
            \A who \in Players :
                LET rows == OrderByTimestamp(PlayerScores(scores, who), after)
                IN \A k \in 1..Len(rows) :
                      rows[k].rating =
                          calculate_player_rating(AdjustedOf(SubSeq(rows, 1, k)))

\* C13 witness: the run has completed on a ledger where player 1 has 7 records
\* and it rewrote a snapshot that differed before the run
C13_Witness ==
    /\ pc[Batch] = "b_rank"
    /\ Len(PlayerScores(scores, 1)) = 7
    /\ \E i \in DOMAIN scores :
          /\ i \in DOMAIN loc[Batch].pre[2]
          /\ loc[Batch].pre[2][i].rating.kind = "val"
          /\ scores[i].rating # loc[Batch].pre[2][i].rating

\* C14: a discard (remove_score_from_queue) that succeeds removes the pending
\* entry of its id and nothing else: the other pending entries stay, and the
\* ScoreRecords with their adjusted scores and ratings, the players table and
\* the difficulty indices are unchanged by it.
C14_DiscardRemovesOnlyThePendingEntry ==
    [][\A p \in Procs :
          (pc[p] = "d_delete" /\ pc'[p] = "done" /\ loc'[p].resp = "success") =>
              /\ scores' = scores
              /\ players' = players
              /\ indices' = indices
              /\ \A i \in DOMAIN pending :
                    pending[i].hash # loc[p].hash =>
                        \E j \in DOMAIN pending' : pending'[j] = pending[i]
              /\ \A j \in DOMAIN pending' :
                    /\ pending'[j].hash # loc[p].hash
                    /\ \E i \in DOMAIN pending : pending[i] = pending'[j]
              /\ Len(pending') = Len(pending) - loc'[p].removed]_vars

\* C14 witness: a discard removed one pending entry and the entry of another
\* id is still pending
C14_Witness ==
    \E p \in Procs :
        /\ Responded(p, "discard", "success")
        /\ loc[p].removed = 1
        /\ Len(pending) = 1
        /\ pending[1].hash # loc[p].hash

\* C15: a verify_score or remove_score_from_queue call by a caller without the
\* moderator role is answered with the permission error in its first step,
\* before any store statement, and leaves the pending queue, the ledger, the
\* players table and the indices as they were.
C15_PermissionCheckComesFirst ==
    [][\A p \in Procs :
          (loc'[p].resp = "nopermission" /\ loc[p].resp # "nopermission"
           /\ loc'[p].kind \in {"verify", "discard"}) =>
              /\ pc[p] = "idle" /\ pc'[p] = "done"
              /\ pending' = pending
              /\ scores' = scores
              /\ players' = players
              /\ indices' = indices
              /\ fails' = fails]_vars

\* C15 witness: a caller without the role asked to verify an id that is pending
\* and got the permission error
C15_Witness ==
    \E p \in Procs :
        /\ Responded(p, "verify", "nopermission")
        /\ \E i \in DOMAIN pending : pending[i].hash = loc[p].hash
        /\ <<pending, scores, players>> = loc[p].pre

\* C16: an add_score_to_queue call whose course and nine resolve to no known
\* course is answered with an error and creates no pending entry: the pending
\* queue is as it was.
C16_UnknownCourseIsRejected ==
    [][(nsub' # nsub /\ submitted'.course \notin Courses) =>
          (submitted'.resp = "error" /\ pending' = pending)]_vars

\* C16 witness: with one entry pending, a submit for an unknown course was
\* answered with an error and the queue still holds that one entry
C16_Witness ==
    /\ nsub = 2
    /\ fails = 0
    /\ submitted.course \notin Courses
    /\ submitted.resp = "error"
    /\ Len(pending) = 1

\* C17 (as claimed): no two entries that are pending at the same time share an
\* id; a submit whose fresh token equals the id of a pending entry does not
\* store a second entry under that id.
C17_PendingIdsAreUnique ==
    \A i, j \in DOMAIN pending : pending[i].hash = pending[j].hash => i = j

\* C18 (as claimed): verify_score answers "queue empty" only when no pending
\* entry exists at the time of the call, also when the store read fails.
C18_EmptyAnswerOnlyForEmptyQueue ==
    \A p \in Procs : Responded(p, "verify", "empty") => pending = <<>>

\* C19 (as claimed): a run of generate_rankings_table recomputes the difficulty
\* indices from the ledger before it recomputes the adjusted scores, so the
\* adjusted scores it is about to write are the raw scores minus the indices
\* that update_difficulty_indices derives from the ledger.
C19_RunUsesRecomputedIndices ==
    pc[Batch] = "b_upd_adj" =>
        LET fresh == update_difficulty_indices(scores, players, indices)
        IN /\ indices = fresh
           /\ \A i \in DOMAIN loc[Batch].rows :
                 loc[Batch].rows[i].adj =
                     RatSub(RatOfInt(loc[Batch].rows[i].score),
                            fresh[loc[Batch].rows[i].course])

\* C20: the ranking built by generate_rankings_table holds exactly the players
\* whose rating is not the unrated sentinel, in order of non-decreasing rating,
\* with the ranks 1, 2, ..., n, and players of equal rating in the order of
\* the rows read from the players table.
C20_RankingIsSortedAndDense ==
    rank.done =>
        LET t == rank.tbl
            r == rank.result
            rated == {i \in DOMAIN t : t[i].rating # INVALID_RATING}
            Pos(name) == CHOOSE i \in DOMAIN t : t[i].name = name
        IN /\ Len(r) = Cardinality(rated)
           /\ \A i \in rated :
                 \E j \in DOMAIN r : r[j].name = t[i].name /\ r[j].rating = t[i].rating
           /\ \A j \in DOMAIN r :
                 /\ r[j].rank = j
                 /\ \E i \in rated : r[j].name = t[i].name
           /\ \A j, k \in DOMAIN r :
                 j < k =>
                    /\ r[j].rating.v[1] * r[k].rating.v[2]
                          <= r[k].rating.v[1] * r[j].rating.v[2]
                    /\ r[j].rating = r[k].rating => Pos(r[j].name) < Pos(r[k].name)

\* C20 witness: of three players the second is unrated and the first and third
\* have the same rating; the ranking is the first, then the third
C20_Witness ==
    /\ rank.done
    /\ Len(rank.tbl) = 3
    /\ rank.tbl[2].rating = INVALID_RATING
    /\ rank.tbl[1].rating = rank.tbl[3].rating
    /\ Len(rank.result) = 2
    /\ rank.result[1].name = NameOf(1) /\ rank.result[1].rank = 1
    /\ rank.result[2].name = NameOf(3) /\ rank.result[2].rank = 2

\* C21 (as claimed): when generate_rankings_table has run to its end twice in a
\* row, with no submit, verify, discard or import between the two runs, the
\* second run leaves every adjusted score, every rating snapshot, every current
\* rating and the published ranking as the first run left them.
C21_SecondRunChangesNothing ==
    (Responded(Batch, "batch", "success") /\ lastrun.valid) =>
        /\ scores = lastrun.scores
        /\ players = lastrun.players
        /\ sheet = lastrun.sheet

\* C22 (as claimed): a ranking run in which a store statement of
\* update_adjusted_scores or update_player_ratings failed leaves the adjusted
\* scores, the rating snapshots and the current ratings as they were before the
\* run.
C22_FailedRunLeavesStateUnchanged ==
    Responded(Batch, "batch", "raised") =>
        /\ scores = loc[Batch].pre[2]
        /\ players = loc[Batch].pre[3]

C27_VerifyRemovesOnlyWhatItPromotes ==
    [][\A p \in Procs :
          (pc[p] = "v_delete" /\ pc'[p] = "v_select") =>
              \A i \in DOMAIN pending :
                  (\A j \in DOMAIN pending' : pending'[j] # pending[i]) =>
                      \E k \in DOMAIN scores' :
                          /\ scores'[k].sub = pending[i].sub
                          /\ scores'[k].ts = pending[i].ts
                          /\ scores'[k].course = pending[i].course
                          /\ scores'[k].player = pending[i].player
                          /\ scores'[k].character = pending[i].character
                          /\ scores'[k].score = pending[i].score]_vars

\* C28 (as claimed): a successful verify_score writes the rating of the record
\* it appended only; the stored rating of every record that was in the ledger
\* before the call is unchanged by it.
C28_VerifyWritesOneSnapshot ==
    \A p \in Procs :
        Responded(p, "verify", "success") =>
            \A i \in DOMAIN loc[p].pre[2] :
                i \in DOMAIN scores /\ scores[i].rating = loc[p].pre[2][i].rating

\* C29: an add_score_to_queue call changes nothing but the pending queue: the
\* ScoreRecords with their adjusted scores and ratings, the players table, the
\* difficulty indices and the published ranking are left as they were.
C29_SubmitTouchesOnlyTheQueue ==
    [][nsub' # nsub =>
          /\ scores' = scores
          /\ players' = players
          /\ indices' = indices
          /\ sheet' = sheet
          /\ RankingsSheet(players') = RankingsSheet(players)]_vars

\* C29 witness: a submission of player 2 is pending, no record and no players
\* row of player 2 exists, and a ranking run has completed since
C29_Witness ==
    /\ \E i \in DOMAIN pending : pending[i].player = 2
    /\ submitted.resp = "queued"
    /\ lastrun.valid
    /\ PlayerScores(scores, 2) = <<>>
    /\ ~players[2].present

\* C30: after a successful verify_score of a submission of player p a players
\* row of p exists, and no add_score_to_queue and no remove_score_from_queue
\* step creates a players row.
C30_PlayerRowComesWithFirstVerify ==
    [][/\ \A p \in Procs :
             (pc'[p] = "done" /\ loc'[p].kind = "verify" /\ loc'[p].resp = "success") =>
                 players'[loc'[p].entry.player].present
       /\ (nsub' # nsub \/ \E p \in Procs : loc[p].kind = "discard" \/ loc'[p].kind = "discard") =>
             \A who \in Players : players'[who].present = players[who].present]_vars

\* C30 witness: player 2 had no players row before a verify_score of the
\* player's first submission succeeded, and has one now
C30_Witness ==
    \E p \in Procs :
        /\ Responded(p, "verify", "success")
        /\ loc[p].entry.player = 2
        /\ ~loc[p].pre[3][2].present
        /\ players[2].present

\* C24: after update_difficulty_indices has completed for a non-empty set of
\* eligible players, the index of every course is the course average minus the
\* overall average, and the indices of all courses add up to zero (their
\* unweighted mean is zero).
C24_IndicesAreCentredCourseAverages ==
    (diff.done /\ diff.wrote) =>
        LET avg == [c \in 1..Cardinality(Courses) |->
                      CourseAverage(diff.tbl, diff.ptbl, c)]
            overall == RatDivInt(RatSum(avg), Cardinality(Courses))
        IN /\ \A c \in Courses : diff.result[c] = RatSub(avg[c], overall)
           /\ RatDivInt(RatSum([c \in 1..Cardinality(Courses) |-> diff.result[c]]),
                        Cardinality(Courses)) = Zero

\* both players are eligible and the function has left non-zero indices
C24_Witness ==
    /\ diff.done /\ diff.wrote
    /\ EligiblePlayers(diff.tbl, diff.ptbl) = Players
    /\ diff.result[1] # Zero
    /\ diff.result # diff.old

\* the table without the rounds of the players who are short of rounds on some
\* course
WithoutShortPlayers(tbl) == SeqFilter(tbl, LAMBDA r : ~ShortOnSomeCourse(tbl, r.player))

\* C25: only the players with at least 8 rounds on every course contribute to
\* update_difficulty_indices: the indices are those of the ledger without the
\* rounds of the other players, and adding, removing or changing a round of a
\* player with fewer than 8 rounds on some course changes no index.
C25_OnlyEligiblePlayersContribute ==
    /\ diff.done =>
         diff.result = update_difficulty_indices(WithoutShortPlayers(diff.tbl),
                                                 diff.ptbl, diff.old)
    /\ diff.changed = "ineligible" => diff.result = diff.prev

\* indices were computed from player 1 while player 2, short of rounds on
\* course 2, had a round changed, removed or added
C25_Witness ==
    /\ diff.changed = "ineligible" /\ diff.wrote
    /\ diff.ptbl[2].present /\ ShortOnSomeCourse(diff.tbl, 2)
    /\ RoundsOn(diff.tbl, 2, 1) # {}
    /\ diff.result # diff.old

\* sum of the raw scores of the rounds S of the table
RECURSIVE SumScores(_, _)
SumScores(tbl, S) ==
    IF S = {} THEN 0
    ELSE LET i == CHOOSE i \in S : TRUE
         IN tbl[i].score + SumScores(tbl, S \ {i})

\* C26: for every eligible player and course the average the function uses is
\* the mean of exactly the player's 8 most recent raw scores on the course by
\* timestamp, and changing a score older than those 8 changes no index.
C26_AverageOfEightMostRecent ==
    /\ diff.done =>
         \A p \in EligiblePlayers(diff.tbl, diff.ptbl), c \in Courses :
            LET recent == RoundsOn(diff.tbl, p, c) \ OldRounds(diff.tbl)
            IN /\ Cardinality(recent) = 8
               /\ PlayerCourseAverage(diff.tbl, p, c) =
                    RatDivInt(RatOfInt(SumScores(diff.tbl, recent)), 8)
    /\ diff.changed = "old" => diff.result = diff.prev

\* indices were computed again after a score older than the 8 most recent was
\* changed, in a table whose last row is that oldest round
C26_Witness ==
    /\ diff.changed = "old" /\ diff.wrote
    /\ Len(diff.tbl) \in OldRounds(diff.tbl)
    /\ diff.result # diff.old

C32_NameChangeRejections ==
    \A p \in Procs :
        loc[p].kind = "rename" =>
            LET who == loc[p].entry.player
                before == loc[p].pre[3]
            IN /\ NameLength(loc[p].entry.name) > 32 =>
                    pc[p] = "done" /\ loc[p].resp = "toolong"
               /\ (pc[p] = "done" /\ ~before[who].present) =>
                    loc[p].resp \in {"toolong", "noplayer", "error"}
               /\ (pc[p] = "done" /\ loc[p].resp \in {"toolong", "noplayer"}) =>
                    players = before
               /\ (pc[p] = "done" /\ loc[p].resp = "success") =>
                    /\ NameLength(loc[p].entry.name) <= 32
                    /\ before[who].present

\* a caller without a verified score asked for a name of 32 characters and was
\* turned away
C32_Witness ==
    \E p \in Procs :
        /\ Responded(p, "rename", "noplayer")
        /\ loc[p].entry.name = NewName(32)
        /\ ~players[loc[p].entry.player].present

\* C33: after a completed ranking run the current rating of every row of the
\* players table is the rating snapshot stored for a record of that player with
\* the latest timestamp, and it is the rating of the player's whole history of
\* adjusted scores in timestamp order.
C33_CurrentRatingIsLastSnapshot ==
    Responded(Batch, "batch", "success") =>
        \A who \in Players :
            players[who].present =>
                LET mine == PlayerScores(scores, who)
                IN /\ \E i \in DOMAIN mine :
                        /\ \A j \in DOMAIN mine : mine[j].ts <= mine[i].ts
                        /\ mine[i].rating = players[who].rating
                   /\ players[who].rating =
                        calculate_player_rating(AdjustedOf(OrderByTimestamp(mine, TRUE)))

\* a ranking run has completed for a player with a numeric rating whose
\* earlier snapshots differ from it, and the run changed the players table
C33_Witness ==
    /\ Responded(Batch, "batch", "success")
    /\ players[1].present /\ players[1].rating.kind = "val"
    /\ \E i \in DOMAIN scores : scores[i].player = 1 /\ scores[i].rating # players[1].rating
    /\ players # loc[Batch].pre[3]

\* C34: verify_score deletes the pending entry only after the insert of the
\* score record has committed: while no two entries of the queue have shared an
\* id, and with store statements that may fail, every submission that was
\* queued is in the queue, or was discarded, or has a record in the ledger.
C34_NoSubmissionLost ==
    ~submitted.dup =>
        \A s \in submitted.queued :
            \/ \E i \in DOMAIN pending : pending[i].sub = s
            \/ \E i \in DOMAIN scores : scores[i].sub = s
            \/ s \in gone

\* a verify_score call failed at a store statement after its insert, with no
\* shared id so far: the submission has its record
C34_Witness ==
    \E p \in Procs :
        /\ Responded(p, "verify", "error")
        /\ ~submitted.dup
        /\ loc[p].round # 0
        /\ \E i \in DOMAIN scores : scores[i].sub = loc[p].entry.sub
        /\ \A i \in DOMAIN pending : pending[i].sub # loc[p].entry.sub

\* the player's records up to and including the time of record r
HistoryUpTo(tbl, r) ==
    OrderByTimestamp(SeqFilter(PlayerScores(tbl, r.player), LAMBDA q : q.ts <= r.ts), TRUE)

\* C35: once the ranking run has completed, the order in which submissions of
\* distinct timestamps were verified does not show: every record carries the
\* time of its submission, and its adjusted score, its rating snapshot and the
\* current rating of every player are determined by the set of records alone
\* (each snapshot is the rating of the player's records up to that time), in
\* whatever order the records were appended.
C35_VerificationOrderDoesNotMatter ==
    (/\ Responded(Batch, "batch", "success")
     /\ \A i, j \in DOMAIN scores :
            (scores[i].player = scores[j].player /\ scores[i].ts = scores[j].ts) => i = j) =>
        /\ \A i \in DOMAIN scores :
              /\ scores[i].sub > 0 => scores[i].ts = submitted.at[scores[i].sub]
              /\ scores[i].adj = adjusted_score(scores[i].score, indices[scores[i].course])
              /\ scores[i].rating =
                   calculate_player_rating(AdjustedOf(HistoryUpTo(scores, scores[i])))
        /\ \A who \in Players :
              players[who].present =>
                 players[who].rating =
                    calculate_player_rating(
                        AdjustedOf(OrderByTimestamp(PlayerScores(scores, who), TRUE)))

\* the later of two submissions of one player was verified first, and the
\* ranking run has completed
C35_Witness ==
    /\ Responded(Batch, "batch", "success")
    /\ \E i, j \in DOMAIN scores :
          /\ i < j /\ scores[i].sub = 2 /\ scores[j].sub = 1
          /\ scores[i].player = scores[j].player
          /\ scores[i].ts > scores[j].ts
          /\ scores[i].rating.kind = "val" /\ scores[j].rating.kind = "val"
          /\ scores[i].rating # scores[j].rating

\* C36 (as claimed): whenever update_database_from_spreadsheet answers with an
\* error for a sheet with a row that is missing a cell, invalid or not
\* convertible to integers, the scores table and the players table are as they
\* were before the call.
C36_RejectedSheetLeavesTablesUnchanged ==
    \A p \in Procs :
        (/\ pc[p] = "done" /\ loc[p].kind = "import"
         /\ loc[p].resp \in {"invalid", "error"}
         /\ \E i \in DOMAIN loc[p].data :
               ~check_row_valid(loc[p].data[i]) \/ ~loc[p].data[i].numeric) =>
            /\ scores = loc[p].pre[2]
            /\ players = loc[p].pre[3]

\* C37: when no player has at least 8 records on every course,
\* update_difficulty_indices ends in an error and writes nothing: every stored
\* index keeps the value it had.
C37_NoEligiblePlayerWritesNothing ==
    (/\ diff.done
     /\ \A p \in Players : diff.ptbl[p].present => ShortOnSomeCourse(diff.tbl, p)) =>
        /\ diff.resp = "raised"
        /\ ~diff.wrote
        /\ \A c \in Courses : diff.result[c] = diff.old[c]

\* the function was applied to a ledger in which both players are short of
\* rounds on course 2, with indices other than zero in the courses table
C37_Witness ==
    /\ diff.done /\ diff.resp = "raised"
    /\ diff.ptbl[1].present /\ diff.ptbl[2].present
    /\ ShortOnSomeCourse(diff.tbl, 1) /\ ShortOnSomeCourse(diff.tbl, 2)
    /\ diff.old[1] # Zero
    /\ diff.result = diff.old

\* C38 (as claimed): after every completed run of generate_rankings_table the
\* published leaderboard is exactly the ranking built in that run, with no row
\* of an earlier, longer ranking left, also when fewer players or none are
\* rated than at the previous run.
C38_SheetIsTheRankingOfTheRun ==
    Responded(Batch, "batch", "success") => sheet = RankingsSheet(players)

\* C39: between complete submit, verify, discard and ranking operations (no
\* store failure, one handler at a time) a player whose current rating is not
\* the unrated value has at least 6 records in the ledger, so every row of the
\* ranking (and of get_top_10_table, which applies the same filter) belongs to
\* a player with at least 6 verified scores.
C39_RatedPlayersHaveSixRecords ==
    (\A q \in AllProcs : pc[q] = "idle") =>
        /\ \A who \in Players :
              (players[who].present /\ players[who].rating # INVALID_RATING) =>
                  Len(PlayerScores(scores, who)) >= 6
        /\ \A i \in DOMAIN RankingsSheet(players) :
              \E who \in Players :
                  /\ players[who].present
                  /\ players[who].name = RankingsSheet(players)[i].name
                  /\ Len(PlayerScores(scores, who)) >= 6

\* player 1 has become rated with exactly 6 records while player 2 has a
\* record and is unrated
C39_Witness ==
    /\ \A q \in AllProcs : pc[q] = "idle"
    /\ players[1].present /\ players[1].rating.kind = "val"
    /\ Len(PlayerScores(scores, 1)) = 6
    /\ players[2].present /\ players[2].rating = INVALID_RATING
    /\ Len(PlayerScores(scores, 2)) = 1
    /\ Len(RankingsSheet(players)) = 1

====
